---------------------------- MODULE Spec2Model ----------------------------
(***************************************************************************)
(* State-machine model of nrcatalogtools/rit.py: the RIT catalog crawl     *)
(* (RITCatalogHelper.download_metadata_for_catalog), its three lookup      *)
(* tiers, the metadata.csv snapshot and RITCatalog.load.                   *)
(*                                                                         *)
(* A metadata file (on the web or in metadata_dir) and the simulation name *)
(* cut from it are the record [fam, idx, res, id] of the fields that the   *)
(* two templates of metadata_file_fmts format into the name; id = -1 for   *)
(* the eccentric template, which has no id field.  A row of the catalog    *)
(* table is the record of the columns the crawl reads back.                *)
(*                                                                         *)
(* metadata.csv is its rows plus whether the file has any bytes: to_csv    *)
(* writes a header line also for a table without rows, and read_csv gives  *)
(* back the simulation_name column as written.                             *)
(*                                                                         *)
(* Spec is the crawl with fetches that succeed, SpecFetch the crawl with   *)
(* fetches that can fail.  The functions of the file-name codec work on    *)
(* the characters of a name (SpecCodec), parse_metadata_txt on the lines   *)
(* of a raw metadata text (SpecParse), metadata_from_cache on any cache    *)
(* directory (SpecCache), the payload downloaders on any data directory    *)
(* (SpecData), and the tag tests of tiers 1 and 2 on any index and file    *)
(* name (SpecTags).  SpecMatch is the script match_combine.py of the same  *)
(* repository.                                                             *)
(***************************************************************************)
EXTENDS Integers, Sequences, FiniteSets, TLC

\* ------------------------------------------------------------------ bounds
MaxSims == 3        \* largest num_sims_to_crawl an invocation is given
NumRes == 2         \* number of entries of possible_resolutions
MaxIdVal == 2       \* max_id_val of the catalog info
MaxRemote == 2      \* number of metadata files the remote archive hosts
MaxRuns == 2        \* number of invocations (processes) in one behaviour
MaxCodecNum == 12    \* the codec is given every number up to this one
MaxLines == 3       \* number of lines of a raw metadata text
MaxDisk == 3        \* number of raw files a cache directory is given
MaxLocal == 2       \* number of payload files data_dir is given
MaxParts == 3       \* number of partition files of match_combine
MaxTrials == 2      \* number of trials in each partition file

\* -------------------------------------------------------- catalog info
\* utils.rit_catalog_info["possible_resolutions"], in its configured order
possible_res == [i \in 1..NumRes |-> 100 * i]

\* utils.rit_catalog_info["max_id_val"]
max_id_val == MaxIdVal

\* default of RITCatalog.load's acceptable_scraping_fraction (0.7), as 7/10
DefaultFracNum == 7
DefaultFracDen == 10

\* The fractions load is called with in the model, <<numerator, denominator>>
AcceptableFractions == {<<1, 3>>, <<DefaultFracNum, DefaultFracDen>>}

\* The two family tags of metadata_file_fmts, in the order of the list
Families == <<"BBH", "eBBH">>

ResValues == {possible_res[i] : i \in 1..NumRes}

\* metadata_file_fmts[0].format(idx, res, id_val)
QuasiFile(idx, res, id_val) ==
    [fam |-> Families[1], idx |-> idx, res |-> res, id |-> id_val]

\* metadata_file_fmts[1].format(idx, res)
EccFile(idx, res) ==
    [fam |-> Families[2], idx |-> idx, res |-> res, id |-> -1]

\* Every metadata file name the archive may host for the modelled indices.
\* id_val ranges up to max_id_val itself, one more than range(max_id_val).
Files ==
    {QuasiFile(i, r, d) : i \in 1..MaxSims, r \in ResValues, d \in 0..MaxIdVal}
        \cup {EccFile(i, r) : i \in 1..MaxSims, r \in ResValues}

RECURSIVE SubsetsUpTo(_, _)
SubsetsUpTo(S, k) ==
    IF k = 0 THEN {{}}
    ELSE LET P == SubsetsUpTo(S, k - 1)
         IN  P \cup {p \cup {x} : p \in P, x \in S}

NoCall == [entry |-> "none", n |-> 0, use_cache |-> TRUE, download |-> "None",
           frac |-> <<DefaultFracNum, DefaultFracDen>>, repeat |-> FALSE,
           prevSnap |-> <<>>, startRows |-> <<>>, startFile |-> FALSE,
           crawl |-> FALSE]

NoPrev == [valid |-> FALSE, n |-> 0, snap |-> <<>>]

VARIABLES
    remote,      \* metadata files that exist on the web (utils.url_exists)
    disk,        \* raw metadata files in metadata_dir
    csvFile,     \* metadata.csv exists with size > 0
    csvRows,     \* rows of metadata.csv
    metadata,    \* helper.metadata
    sims,        \* local table of download_metadata_for_catalog
    idx,         \* loop variable of the crawl
    pc,          \* position of the running process
    call,        \* arguments of the running invocation
    result,      \* what the invocation returned or raised
    netcalls,    \* remote calls made by the running invocation
    tier,        \* per identifier: how this crawl resolved it
    runs,        \* invocations started so far
    prev         \* the preceding completed crawl, for a repeated run

vars == <<remote, disk, csvFile, csvRows, metadata, sims, idx, pc, call,
          result, netcalls, tier, runs, prev>>

\* ----------------------------------------------------------------- helpers
Range(s) == {s[i] : i \in 1..Len(s)}

\* DataFrame.iloc[:k]
Head_(s, k) == IF k <= 0 THEN <<>> ELSE SubSeq(s, 1, IF k < Len(s) THEN k ELSE Len(s))

\* simname_from_metadata_filename: the file name cut at "_Meta"
simname_from_metadata_filename(f) ==
    [fam |-> f.fam, idx |-> f.idx, res |-> f.res, id |-> f.id]

\* A row of the table: the columns of the record the crawl reads back
Row(f) == [simulation_name |-> simname_from_metadata_filename(f)]

\* simtags(idx): the part of each template before its first "-", formatted
simtags(i) == [k \in 1..2 |-> [fam |-> Families[k], idx |-> i]]

\* str(metadata_dir / sim_tag) + "*" matches file f; also `sim_tag in name`
TagMatches(tag, f) == f.fam = tag.fam /\ f.idx = tag.idx

\* glob.glob(str(mf) + "*")
Glob(tag, dsk) == {f \in dsk : TagMatches(tag, f)}

\* Mutant of BelowFraction: the fraction is not scaled by num_sims_to_crawl
BelowFraction_NoScale(len, frac, n) == len * frac[2] < frac[1]

\* len(df) < acceptable_scraping_fraction * num_sims_to_crawl
BelowFraction(len, frac, n) == len * frac[2] < frac[1] * n

NoTier == [i \in 1..MaxSims |-> [how |-> "none", rows |-> <<>>]]

\* --------------------------------------------------------- tier 1: disk
\* metadata_from_cache(idx): the tags are scanned in the order of simtags and
\* the first tag with a file on disk gives the record.  glob's order is not
\* specified, so poss_files[0] is any file of the tag: the result is the set
\* of tables the call can return (a one-row table, or the empty table).
metadata_from_cache(i, dsk) ==
    LET first == Glob(simtags(i)[1], dsk)
        second == Glob(simtags(i)[2], dsk)
    IN  IF first # {} THEN {<<Row(f)>> : f \in first}
        ELSE IF second # {} THEN {<<Row(f)>> : f \in second}
        ELSE {<<>>}

\* refresh_metadata_df_on_disk: the tables that concatenating
\* metadata_from_cache(idx) for idx = i..n can give
RECURSIVE RefreshFrom(_, _, _)
RefreshFrom(i, n, dsk) ==
    IF i > n THEN {<<>>}
    ELSE {a \o b : a \in metadata_from_cache(i, dsk), b \in RefreshFrom(i + 1, n, dsk)}

\* -------------------------------------------------------- tier 2: table
\* The scan of sims.iterrows(): every row whose name holds one of the tags
\* sets found, is asserted to decode to idx, and overwrites sim_data, so the
\* last such row is the one kept.
Tier2Hits(i, tbl) ==
    {k \in 1..Len(tbl) :
        \E t \in 1..2 : TagMatches(simtags(i)[t], tbl[k].simulation_name)}

SetMax(S) == CHOOSE m \in S : \A x \in S : x <= m

Tier2(i, tbl) ==
    LET hits == Tier2Hits(i, tbl)
    IN  [found |-> hits # {},
         data |-> IF hits = {} THEN <<>> ELSE <<tbl[SetMax(hits)]>>,
         assert_ok |-> \A k \in hits : tbl[k].simulation_name.idx = i]

\* ------------------------------------------------------- tier 3: remote
ExistsCall(f) == [op |-> "url_exists", file |-> f]
GetCall(f) == [op |-> "download_file", file |-> f]

\* Mutant of ProbeFile: the name is fetched without the existence check
ProbeFile_NoCheck(f, dsk, uc) ==
    IF uc /\ f \in dsk
    THEN [data |-> <<Row(f)>>, calls |-> {}, saved |-> {}]
    ELSE [data |-> <<Row(f)>>, calls |-> {GetCall(f)}, saved |-> {f}]

\* Mutant of ProbeFile: a file on disk is read whatever use_cache is
ProbeFile_ReadsCache(f, dsk, uc) ==
    IF f \notin remote
    THEN [data |-> <<>>, calls |-> {ExistsCall(f)}, saved |-> {}]
    ELSE IF f \in dsk
    THEN [data |-> <<Row(f)>>, calls |-> {ExistsCall(f)}, saved |-> {}]
    ELSE [data |-> <<Row(f)>>, calls |-> {ExistsCall(f), GetCall(f)},
          saved |-> {f}]

\* One iteration of download_metadata's loop over possible_file_names
ProbeFile(f, dsk, uc) ==
    IF f \notin remote
    THEN [data |-> <<>>, calls |-> {ExistsCall(f)}, saved |-> {}]
    ELSE IF uc /\ f \in dsk
    THEN [data |-> <<Row(f)>>, calls |-> {ExistsCall(f)}, saved |-> {}]
    ELSE [data |-> <<Row(f)>>, calls |-> {ExistsCall(f), GetCall(f)},
          saved |-> {f}]

\* download_metadata(idx, res, id_val): the quasicircular name, then the
\* eccentric one; the first that gives a record ends the loop
download_metadata(i, res, id_val, dsk, uc) ==
    LET p1 == ProbeFile(QuasiFile(i, res, id_val), dsk, uc)
        p2 == ProbeFile(EccFile(i, res), dsk, uc)
    IN  IF p1.data # <<>> THEN p1
        ELSE [data |-> p2.data, calls |-> p1.calls \cup p2.calls,
              saved |-> p2.saved]

\* for id_val in range(max_id_in_name), from id_val on
RECURSIVE Tier3Ids(_, _, _, _, _, _)
Tier3Ids(i, res, id_val, maxid, dsk, uc) ==
    IF id_val >= maxid THEN [data |-> <<>>, calls |-> {}, saved |-> {}]
    ELSE LET d == download_metadata(i, res, id_val, dsk, uc)
         IN  IF d.data # <<>> THEN d
             ELSE LET rest == Tier3Ids(i, res, id_val + 1, maxid, dsk, uc)
                  IN  [data |-> rest.data, calls |-> d.calls \cup rest.calls,
                       saved |-> rest.saved]

\* for res in possible_res[::-1], from position k down
RECURSIVE Tier3Res(_, _, _, _, _, _)
Tier3Res(i, k, pres, maxid, dsk, uc) ==
    IF k < 1 THEN [data |-> <<>>, calls |-> {}, saved |-> {}]
    ELSE LET d == Tier3Ids(i, pres[k], 0, maxid, dsk, uc)
         IN  IF d.data # <<>> THEN d
             ELSE LET rest == Tier3Res(i, k - 1, pres, maxid, dsk, uc)
                  IN  [data |-> rest.data, calls |-> d.calls \cup rest.calls,
                       saved |-> rest.saved]

\* Mutant of Tier3: possible_res is walked in its listed order
RECURSIVE Tier3ResForward(_, _, _, _, _, _)
Tier3ResForward(i, k, pres, maxid, dsk, uc) ==
    IF k > Len(pres) THEN [data |-> <<>>, calls |-> {}, saved |-> {}]
    ELSE LET d == Tier3Ids(i, pres[k], 0, maxid, dsk, uc)
         IN  IF d.data # <<>> THEN d
             ELSE LET rest == Tier3ResForward(i, k + 1, pres, maxid, dsk, uc)
                  IN  [data |-> rest.data, calls |-> d.calls \cup rest.calls,
                       saved |-> rest.saved]

Tier3_Forward(i, dsk, uc) == Tier3ResForward(i, 1, possible_res, max_id_val, dsk, uc)

\* The crawl's tier 3 with the helper's possible_res and max_id_val
Tier3(i, dsk, uc) == Tier3Res(i, Len(possible_res), possible_res, max_id_val, dsk, uc)

\* Mutant of ResolveIdx: the web is asked although the disk gave a record
ResolveIdx_WebFirst(i, cached, tbl, dsk, uc) ==
    LET t3 == Tier3(i, dsk, uc)
    IN  IF t3.data # <<>>
        THEN [how |-> "remote", data |-> t3.data, calls |-> t3.calls,
              saved |-> t3.saved, assert_ok |-> TRUE]
        ELSE [how |-> IF cached # <<>> THEN "disk" ELSE "gap", data |-> cached,
              calls |-> t3.calls, saved |-> {}, assert_ok |-> TRUE]

\* The body of the crawl's loop for idx = i, given what metadata_from_cache
\* returned (cached; the empty table when use_cache is off)
ResolveIdx(i, cached, tbl, dsk, uc) ==
    IF cached # <<>>
    THEN [how |-> "disk", data |-> cached, calls |-> {}, saved |-> {},
          assert_ok |-> TRUE]
    ELSE LET t2 == Tier2(i, tbl)
         IN  IF Len(tbl) > 0 /\ t2.found
             THEN [how |-> "table", data |-> t2.data, calls |-> {},
                   saved |-> {}, assert_ok |-> t2.assert_ok]
             ELSE LET t3 == Tier3(i, dsk, uc)
                  IN  [how |-> IF t3.data # <<>> THEN "remote" ELSE "gap",
                       data |-> t3.data, calls |-> t3.calls,
                       saved |-> t3.saved, assert_ok |-> TRUE]

\* ------------------------------------------------------------------- Init
\* A fresh cache directory (the helper's constructor only creates the
\* directories) and any archive holding at most MaxRemote metadata files.
Init ==
    /\ remote \in SubsetsUpTo(Files, MaxRemote)
    /\ disk = {}
    /\ csvFile = FALSE
    /\ csvRows = <<>>
    /\ metadata = <<>>
    /\ sims = <<>>
    /\ idx = 0
    /\ pc = "idle"
    /\ call = NoCall
    /\ result = [kind |-> "none", table |-> <<>>]
    /\ netcalls = {}
    /\ tier = NoTier
    /\ runs = 0
    /\ prev = NoPrev

\* No process is running: a new invocation can start
Idle == pc \in {"idle", "returned", "raised", "crashed"}

\* The table download_metadata_for_catalog hands back when it ends its loop or
\* returns the snapshot
Returned(entry, tbl) ==
    [kind |-> IF entry = "load" THEN "catalog" ELSE "table", table |-> tbl]

\* The snapshot's cut: self.metadata.iloc[: num_sims_to_crawl - 1]
SnapshotCut(tbl, n) == Head_(tbl, n - 1)

\* Mutant of SnapshotSuffices: the snapshot must hold num_sims_to_crawl rows
SnapshotSuffices_Full(tbl, n) == Len(tbl) >= n

\* The test that makes the crawl return the snapshot instead of crawling
SnapshotSuffices(tbl, n) == Len(tbl) >= n - 1

\* download_metadata_for_catalog up to its loop: a helper (self.metadata
\* given as held) reads the snapshot (file, rows) when use_cache is set, and
\* returns its cut or starts the loop at idx = 1.
CrawlStart(c, held, file, rows) ==
    /\ call' = [c EXCEPT !.startRows = rows, !.startFile = file,
                         !.crawl = TRUE]
    /\ netcalls' = {}
    /\ tier' = NoTier
    /\ IF c.use_cache /\ file
       THEN /\ metadata' = rows
            /\ IF SnapshotSuffices(rows, c.n)
               THEN /\ pc' = "returned"
                    /\ result' = Returned(c.entry, SnapshotCut(rows, c.n))
                    /\ sims' = <<>>
                    /\ idx' = 0
                    /\ prev' = IF c.entry = "crawl"
                               THEN [valid |-> TRUE, n |-> c.n, snap |-> rows]
                               ELSE NoPrev
               ELSE /\ pc' = "resolve"
                    /\ result' = [kind |-> "none", table |-> <<>>]
                    /\ sims' = rows
                    /\ idx' = 1
                    /\ prev' = NoPrev
       ELSE /\ metadata' = held
            /\ pc' = "resolve"
            /\ result' = [kind |-> "none", table |-> <<>>]
            /\ sims' = <<>>
            /\ idx' = 1
            /\ prev' = NoPrev

\* helper.download_metadata_for_catalog(num_sims_to_crawl = n) called on a
\* new RITCatalogHelper(use_cache = uc)
CrawlCall(n, uc) ==
    /\ Idle
    /\ runs < MaxRuns
    /\ runs' = runs + 1
    /\ CrawlStart([NoCall EXCEPT !.entry = "crawl", !.n = n, !.use_cache = uc,
                                 !.repeat = uc /\ prev.valid /\ prev.n = n,
                                 !.prevSnap = prev.snap],
                  <<>>, csvFile, csvRows)
    /\ UNCHANGED <<remote, disk, csvFile, csvRows>>

\* End of one pass of the loop: the next idx, or line 762-763
Advance(tbl, snap) ==
    IF idx = call.n
    THEN /\ pc' = "returned"
         /\ result' = Returned(call.entry, tbl)
         /\ idx' = idx
         /\ prev' = IF call.entry = "crawl" /\ call.use_cache
                    THEN [valid |-> TRUE, n |-> call.n, snap |-> snap]
                    ELSE NoPrev
    ELSE /\ pc' = "resolve"
         /\ idx' = idx + 1
         /\ UNCHANGED <<result, prev>>

\* One pass of the loop body up to self.metadata = sims (lines 684-758)
Resolve ==
    /\ pc = "resolve"
    /\ \E cached \in (IF call.use_cache THEN metadata_from_cache(idx, disk)
                                        ELSE {<<>>}) :
         LET r == ResolveIdx(idx, cached, sims, disk, call.use_cache)
         IN  /\ netcalls' = netcalls \cup r.calls
             /\ disk' = disk \cup r.saved
             /\ IF r.assert_ok
                THEN /\ sims' = sims \o r.data
                     /\ metadata' = sims \o r.data
                     /\ tier' = [tier EXCEPT ![idx] = [how |-> r.how, rows |-> r.data]]
                     /\ IF call.use_cache
                        THEN /\ pc' = "write_open"
                             /\ UNCHANGED <<idx, result, prev>>
                        ELSE Advance(sims \o r.data, csvRows)
                ELSE /\ pc' = "raised"
                     /\ result' = [kind |-> "AssertionError", table |-> <<>>]
                     /\ UNCHANGED <<sims, metadata, tier, idx, prev>>
    /\ UNCHANGED <<remote, csvFile, csvRows, call, runs>>

\* write_metadata_df_to_disk, line 767: open(metadata.csv, "w+") leaves the
\* file empty
WriteOpen ==
    /\ pc = "write_open"
    /\ csvFile' = FALSE
    /\ csvRows' = <<>>
    /\ pc' = "write_csv"
    /\ UNCHANGED <<remote, disk, metadata, sims, idx, call, result, netcalls,
                   tier, runs, prev>>

\* write_metadata_df_to_disk, lines 768-772: to_csv writes the table and the
\* file is closed; then the loop goes on
WriteCsv ==
    /\ pc = "write_csv"
    /\ csvFile' = TRUE
    /\ csvRows' = metadata
    /\ Advance(metadata, metadata)
    /\ UNCHANGED <<remote, disk, metadata, sims, call, netcalls, tier, runs>>

\* The process is terminated during a crawl: what it held in memory is gone,
\* the cache directory stays as it is.  idx, call and tier keep what the
\* terminated crawl had done.
Crash ==
    /\ pc \in {"resolve", "write_open", "write_csv"}
    /\ pc' = "crashed"
    /\ metadata' = <<>>
    /\ sims' = <<>>
    /\ prev' = NoPrev
    /\ UNCHANGED <<remote, disk, csvFile, csvRows, idx, call, result, netcalls,
                   tier, runs>>

\* Between invocations a raw metadata file is removed from metadata_dir
\* (the rows read from metadata.csv then have no file behind them)
RemoveRawFile ==
    /\ Idle
    /\ runs < MaxRuns
    /\ \E f \in disk : disk' = disk \ {f}
    /\ prev' = NoPrev
    /\ UNCHANGED <<remote, csvFile, csvRows, metadata, sims, idx, pc, call,
                   result, netcalls, tier, runs>>

\* read_metadata_df_from_disk
read_metadata_df_from_disk == IF csvFile THEN csvRows ELSE <<>>

\* RITCatalog.load(download, num_sims_to_crawl = n,
\* acceptable_scraping_fraction = frac), lines 61-102; when it falls back to
\* the crawl, the crawl's passes follow as Resolve, WriteOpen, WriteCsv and
\* load's lines 104-111 build the catalog from what the crawl returns.
Load(download, n, frac) ==
    /\ Idle
    /\ runs < MaxRuns
    /\ runs' = runs + 1
    /\ LET df0 == read_metadata_df_from_disk
           refresh == Len(df0) = 0 \/ BelowFraction(Len(df0), frac, n)
           c == [NoCall EXCEPT !.entry = "load", !.n = n, !.download = download,
                               !.frac = frac]
       IN  \E df \in (IF refresh THEN RefreshFrom(1, n, disk) ELSE {df0}) :
             LET file == IF refresh THEN TRUE ELSE csvFile
                 rows == IF refresh THEN df ELSE csvRows
             IN  /\ csvFile' = file
                 /\ csvRows' = rows
                 /\ IF BelowFraction(Len(df), frac, n)
                    THEN IF download = "True"
                         THEN CrawlStart(c, df, file, rows)
                         ELSE /\ pc' = "raised"
                              /\ result' = [kind |-> "ValueError", table |-> <<>>]
                              /\ metadata' = df
                              /\ call' = [c EXCEPT !.startRows = rows,
                                                   !.startFile = file]
                              /\ netcalls' = {}
                              /\ tier' = NoTier
                              /\ prev' = NoPrev
                              /\ UNCHANGED <<sims, idx>>
                    ELSE /\ pc' = "returned"
                         /\ result' = [kind |-> "catalog", table |-> df]
                         /\ metadata' = df
                         /\ call' = [c EXCEPT !.startRows = rows,
                                              !.startFile = file]
                         /\ netcalls' = {}
                         /\ tier' = NoTier
                         /\ prev' = NoPrev
                         /\ UNCHANGED <<sims, idx>>
    /\ UNCHANGED <<remote, disk>>

Next ==
    \/ \E n \in 1..MaxSims, uc \in BOOLEAN : CrawlCall(n, uc)
    \/ \E d \in {"True", "False", "None"}, n \in 1..MaxSims,
          frac \in AcceptableFractions : Load(d, n, frac)
    \/ Resolve
    \/ WriteOpen
    \/ WriteCsv
    \/ Crash
    \/ RemoveRawFile

Spec == Init /\ [][Next]_vars

\* ------------------------------------------------- the crawl, failing fetch
\* A pass of the loop whose tier 3 reaches metadata_from_link(link, save_to)
\* (lines 605-607) while the transfer of utils.download_file does not succeed.
\* Nothing between line 514 and the caller of the crawl catches an exception,
\* so what the transfer leaves behind decides the pass:
\*   "raise"    no file at save_to: download_file raises, or open(save_to) in
\*              metadata_from_file does (line 527); the exception leaves
\*              download_metadata and download_metadata_for_catalog;
\*   "unusable" a file without any "key = value" line at save_to:
\*              parse_metadata_txt returns the eight derived fields for it, so
\*              len(metadata_dict) > 0 holds and the record is appended.
FetchFails(outcome) ==
    /\ pc = "resolve"
    /\ LET cached == <<>>
           r == ResolveIdx(idx, cached, sims, disk, call.use_cache)
       IN  /\ IF call.use_cache THEN cached \in metadata_from_cache(idx, disk)
                                ELSE TRUE
           /\ r.how = "remote"
           /\ r.saved # {}
           /\ netcalls' = netcalls \cup r.calls
           /\ IF outcome = "raise"
              THEN /\ pc' = "raised"
                   /\ result' = [kind |-> "FetchError", table |-> <<>>]
                   /\ UNCHANGED <<disk, sims, metadata, tier, idx, prev>>
              ELSE /\ disk' = disk \cup r.saved
                   /\ sims' = sims \o r.data
                   /\ metadata' = sims \o r.data
                   /\ tier' = [tier EXCEPT ![idx] = [how |-> "unusable",
                                                     rows |-> r.data]]
                   /\ IF call.use_cache
                      THEN /\ pc' = "write_open"
                           /\ UNCHANGED <<idx, result, prev>>
                      ELSE Advance(sims \o r.data, csvRows)
    /\ UNCHANGED <<remote, csvFile, csvRows, call, runs>>

NextFetch ==
    \/ Next
    \/ \E outcome \in {"raise", "unusable"} : FetchFails(outcome)

SpecFetch == Init /\ [][NextFetch]_vars

\* ------------------------------------------------------- file-name codec
\* At this level a Python str is the sequence of its one-character strings.
Digits == <<"0", "1", "2", "3", "4", "5", "6", "7", "8", "9">>

IsDigit(c) == \E d \in 1..Len(Digits) : Digits[d] = c

DigitVal(c) == (CHOOSE d \in 1..Len(Digits) : Digits[d] = c) - 1

\* "{:d}".format(n) for n >= 0
RECURSIVE FmtD(_)
FmtD(n) ==
    IF n < Len(Digits) THEN <<Digits[n + 1]>>
    ELSE FmtD(n \div Len(Digits)) \o <<Digits[(n % Len(Digits)) + 1]>>

\* "{:04d}".format(n) for n >= 0: zeros up to the width, never a cut
RECURSIVE ZeroFill(_, _)
ZeroFill(s, w) == IF Len(s) >= w THEN s ELSE ZeroFill(<<"0">> \o s, w)

IndexWidth == 4

Fmt04D(n) == ZeroFill(FmtD(n), IndexWidth)

\* int(s) succeeds: the strings the codec hands to int() hold no sign, blank
\* or underscore, so only a non-empty run of digits converts
IsInt(s) == s # <<>> /\ \A k \in 1..Len(s) : IsDigit(s[k])

RECURSIVE IntOf(_)
IntOf(s) ==
    IF s = <<>> THEN 0
    ELSE Len(Digits) * IntOf(SubSeq(s, 1, Len(s) - 1)) + DigitVal(s[Len(s)])

\* s[k:], s[:k], s[-k:] and s[-1:] of Python
SliceFrom(s, k) == SubSeq(s, k + 1, Len(s))

SliceTo(s, k) == SubSeq(s, 1, IF k < Len(s) THEN k ELSE Len(s))

SliceLast(s, k) == SubSeq(s, IF Len(s) > k THEN Len(s) - k + 1 ELSE 1, Len(s))

\* m occurs in s at position k
OccursAt(s, m, k) == k + Len(m) - 1 <= Len(s) /\ SubSeq(s, k, k + Len(m) - 1) = m

\* m in s
Contains(s, m) == \E k \in 1..Len(s) : OccursAt(s, m, k)

\* s.split(m), m not empty
RECURSIVE Split(_, _)
Split(s, m) ==
    IF ~Contains(s, m) THEN <<s>>
    ELSE LET k == CHOOSE j \in 1..Len(s) :
                      OccursAt(s, m, j) /\ \A i \in 1..(j - 1) : ~OccursAt(s, m, i)
         IN  <<SubSeq(s, 1, k - 1)>> \o Split(SubSeq(s, k + Len(m), Len(s)), m)

\* The catalog tag and the family tags as they stand in the templates
TagStr == <<"R", "I", "T">>

FamStr(fam) == IF fam = Families[1] THEN <<"B", "B", "H">>
                                    ELSE <<"e", "B", "B", "H">>

MetaSuffix == <<"_", "M", "e", "t", "a", "d", "a", "t", "a", ".", "t", "x", "t">>

\* metadata_file_fmts[0].format(idx, res, id_val):
\* "RIT:BBH:{:04d}-n{:d}-id{:d}_Metadata.txt"
metadata_file_fmt0(i, res, id_val) ==
    TagStr \o <<":">> \o FamStr(Families[1]) \o <<":">> \o Fmt04D(i)
        \o <<"-", "n">> \o FmtD(res) \o <<"-", "i", "d">> \o FmtD(id_val)
        \o MetaSuffix

\* metadata_file_fmts[1].format(idx, res):
\* "RIT:eBBH:{:04d}-n{:d}-ecc_Metadata.txt"
metadata_file_fmt1(i, res) ==
    TagStr \o <<":">> \o FamStr(Families[2]) \o <<":">> \o Fmt04D(i)
        \o <<"-", "n">> \o FmtD(res) \o <<"-", "e", "c", "c">> \o MetaSuffix

\* metadata_filenames(idx, res, id_val)
metadata_filenames(i, res, id_val) ==
    <<metadata_file_fmt0(i, res, id_val), metadata_file_fmt1(i, res)>>

\* What a function of the codec gives: the value it returns, or the exception
\* it raises
Ret(v) == [ok |-> TRUE, val |-> v]

Exc(e) == [ok |-> FALSE, val |-> e]

\* Mutant of sim_info_from_metadata_filename: the index is the last three
\* characters before the first "-"
sim_info_from_metadata_filename_Last3(file_name) ==
    LET parts == Split(file_name, <<"-">>)
        sim_s == SliceLast(parts[1], 3)
        res_s == SliceFrom(parts[2], 1)
        id_s == SliceFrom(Split(parts[3], <<"_">>)[1], 2)
    IN  IF ~IsInt(sim_s) THEN Exc("ValueError")
        ELSE IF Len(parts) < 2 THEN Exc("IndexError")
        ELSE IF ~IsInt(res_s) THEN Exc("ValueError")
        ELSE Ret(<<IntOf(sim_s), IntOf(res_s),
                   IF Len(parts) >= 3 /\ IsInt(id_s) THEN IntOf(id_s) ELSE -1>>)

\* sim_info_from_metadata_filename(file_name), lines 293-299: the try covers
\* the id value only
sim_info_from_metadata_filename(file_name) ==
    LET parts == Split(file_name, <<"-">>)
        sim_s == SliceLast(parts[1], 4)
        res_s == SliceFrom(parts[2], 1)
        id_s == SliceFrom(Split(parts[3], <<"_">>)[1], 2)
    IN  IF ~IsInt(sim_s) THEN Exc("ValueError")
        ELSE IF Len(parts) < 2 THEN Exc("IndexError")
        ELSE IF ~IsInt(res_s) THEN Exc("ValueError")
        ELSE Ret(<<IntOf(sim_s), IntOf(res_s),
                   IF Len(parts) >= 3 /\ IsInt(id_s) THEN IntOf(id_s) ELSE -1>>)

\* simname_from_metadata_filename on the characters: filename.split("_Meta")[0]
simname_from_metadata_filename_str(filename) ==
    Split(filename, <<"_", "M", "e", "t", "a">>)[1]

EccMark == <<"e", "B", "B", "H">>

\* Mutant of metadata_filename_from_simname: every name is formatted with the
\* quasicircular template
metadata_filename_from_simname_Quasi(sim_name) ==
    LET parts == Split(sim_name, <<":">>)
        txt == parts[Len(parts)]
        idx_s == SliceTo(txt, 4)
        dash == Split(txt, <<"-">>)
        res_s == SliceFrom(dash[2], 1)
        id_s == SliceLast(txt, 1)
    IN  IF ~IsInt(idx_s) THEN Exc("ValueError")
        ELSE IF Len(dash) < 2 THEN Exc("IndexError")
        ELSE IF ~IsInt(res_s) THEN Exc("ValueError")
        ELSE IF ~IsInt(id_s) THEN Ret(metadata_file_fmt0(IntOf(idx_s), IntOf(res_s), 0))
        ELSE Ret(metadata_file_fmt0(IntOf(idx_s), IntOf(res_s), IntOf(id_s)))

\* metadata_filename_from_simname(sim_name), lines 319-327
metadata_filename_from_simname(sim_name) ==
    LET parts == Split(sim_name, <<":">>)
        txt == parts[Len(parts)]
        idx_s == SliceTo(txt, 4)
        dash == Split(txt, <<"-">>)
        res_s == SliceFrom(dash[2], 1)
        id_s == SliceLast(txt, 1)
    IN  IF ~IsInt(idx_s) THEN Exc("ValueError")
        ELSE IF Len(dash) < 2 THEN Exc("IndexError")
        ELSE IF ~IsInt(res_s) THEN Exc("ValueError")
        ELSE IF ~Contains(sim_name, EccMark)
        THEN IF txt = <<>> THEN Exc("IndexError")
             ELSE IF ~IsInt(id_s) THEN Exc("ValueError")
             ELSE Ret(metadata_file_fmt0(IntOf(idx_s), IntOf(res_s), IntOf(id_s)))
        ELSE Ret(metadata_file_fmt1(IntOf(idx_s), IntOf(res_s)))

\* The return expression of waveform_filename_from_simname, lines 378-389
ExtrapStrain(mf) ==
    LET parts == Split(mf, <<":">>)
        stem == Split(Split(parts[3], <<"_">>)[1], <<"-">>)
    IN  <<"E", "x", "t", "r", "a", "p", "S", "t", "r", "a", "i", "n", "_">>
            \o parts[1] \o <<"-">> \o parts[2] \o <<"-">> \o stem[1]
            \o <<"-">> \o stem[2] \o <<".", "h", "5">>

\* Mutant of waveform_filename_from_simname: the id segment of the metadata
\* file name is kept in the waveform file name
waveform_filename_from_simname_KeepId(sim_name) ==
    LET parts == Split(sim_name, <<":">>)
        txt == parts[Len(parts)]
        idx_s == SliceTo(txt, 4)
        dash == Split(txt, <<"-">>)
        res_s == SliceFrom(dash[2], 1)
        id_s == SliceLast(txt, 1)
    IN  IF ~IsInt(idx_s) THEN Exc("ValueError")
        ELSE IF Len(dash) < 2 THEN Exc("IndexError")
        ELSE IF ~IsInt(res_s) THEN Exc("ValueError")
        ELSE IF IsInt(id_s)
        THEN Ret(ExtrapStrain(metadata_file_fmt0(IntOf(idx_s), IntOf(res_s),
                                                 IntOf(id_s)))
                 \o <<"-">> \o id_s)
        ELSE Ret(ExtrapStrain(metadata_file_fmt1(IntOf(idx_s), IntOf(res_s))))

\* waveform_filename_from_simname(sim_name), lines 369-389: the try covers
\* int(txt[-1]) and the quasicircular format, every exception in it selects
\* the eccentric format
waveform_filename_from_simname(sim_name) ==
    LET parts == Split(sim_name, <<":">>)
        txt == parts[Len(parts)]
        idx_s == SliceTo(txt, 4)
        dash == Split(txt, <<"-">>)
        res_s == SliceFrom(dash[2], 1)
        id_s == SliceLast(txt, 1)
    IN  IF ~IsInt(idx_s) THEN Exc("ValueError")
        ELSE IF Len(dash) < 2 THEN Exc("IndexError")
        ELSE IF ~IsInt(res_s) THEN Exc("ValueError")
        ELSE IF IsInt(id_s)
        THEN Ret(ExtrapStrain(metadata_file_fmt0(IntOf(idx_s), IntOf(res_s),
                                                 IntOf(id_s))))
        ELSE Ret(ExtrapStrain(metadata_file_fmt1(IntOf(idx_s), IntOf(res_s))))

\* ------------------------------------------- the codec's functions, called
\* Arguments the templates are formatted with: every index, resolution and id
\* value up to MaxCodecNum, the configured resolutions, and numbers on both
\* sides of each change in the count of digits
CodecIdx == (1..MaxCodecNum) \cup {999, 1000, 9999, 10000, 12345}

CodecRes == (1..MaxCodecNum) \cup ResValues \cup {88, 1000}

CodecIds == 0..MaxCodecNum

CodecArgs ==
    {QuasiFile(i, r, d) : i \in CodecIdx, r \in CodecRes, d \in CodecIds}
        \cup {EccFile(i, r) : i \in CodecIdx, r \in CodecRes}

\* The metadata file name of the template of a.fam
FileName(a) ==
    IF a.fam = Families[1] THEN metadata_filenames(a.idx, a.res, a.id)[1]
    ELSE metadata_filenames(a.idx, a.res, 0)[2]

\* Every variable of the crawl as the constructor leaves it, no archive
NoCrawl ==
    /\ remote = {}
    /\ disk = {}
    /\ csvFile = FALSE
    /\ csvRows = <<>>
    /\ metadata = <<>>
    /\ sims = <<>>
    /\ idx = 0
    /\ netcalls = {}
    /\ tier = NoTier
    /\ runs = 0
    /\ prev = NoPrev

InitCodec ==
    /\ NoCrawl
    /\ pc = "idle"
    /\ \E a \in CodecArgs :
         call = [entry |-> "codec", args |-> a, file_name |-> FileName(a)]
    /\ result = [kind |-> "none", table |-> <<>>]

\* A function of the codec is applied to the file name (f: the name of the
\* function, out: what it gives)
CodecCall(f, out) ==
    /\ pc = "idle"
    /\ call.entry = "codec"
    /\ pc' = "returned"
    /\ result' = [kind |-> f, out |-> out]
    /\ UNCHANGED <<remote, disk, csvFile, csvRows, metadata, sims, idx, call,
                   netcalls, tier, runs, prev>>

SimInfoCall ==
    CodecCall("sim_info_from_metadata_filename",
              sim_info_from_metadata_filename(call.file_name))

FilenameFromSimnameCall ==
    CodecCall("metadata_filename_from_simname",
              metadata_filename_from_simname(
                  simname_from_metadata_filename_str(call.file_name)))

\* The waveform file name of the simulation, and of the simulations whose
\* names differ from it in the id value only
WaveformCall ==
    CodecCall("waveform_filename_from_simname",
              [d \in (IF call.args.fam = Families[1] THEN CodecIds
                                                     ELSE {call.args.id}) |->
                  waveform_filename_from_simname(
                      simname_from_metadata_filename_str(
                          FileName([call.args EXCEPT !.id = d])))])

NextCodec ==
    \/ SimInfoCall
    \/ FilenameFromSimnameCall
    \/ WaveformCall

SpecCodec == InitCodec /\ [][NextCodec]_vars

\* ---------------------------------------------------- parse_metadata_txt
\* A line of raw metadata is [alpha, key, text]: whether its first character
\* is a letter, kv[0].strip() and "=".join(kv[1:]).strip() of
\* kv = s.split("="); a line without "=" has the empty text.  key is the
\* dictionary key, text a sequence of characters.  A value of opts is a
\* float, [t |-> "num", h |-> twice the number], or a str,
\* [t |-> "str", s |-> text].
derived_fields ==
    <<"freq-start-22", "freq-start-22-Hz-1Msun", "number-of-cycles-22",
      "number-of-orbits", "peak-omega-22", "peak-ampl-22", "Msun",
      "eccentricity">>

\* The four blocks of lines 462-490: the z key tested, the keys defaulted
SpinBlocks ==
    <<[z |-> "relaxed-chi1z", xy |-> <<"relaxed-chi1x", "relaxed-chi1y">>],
      [z |-> "relaxed-chi2z", xy |-> <<"relaxed-chi2x", "relaxed-chi2y">>],
      [z |-> "initial-bh-chi1z",
       xy |-> <<"initial-bh-chi1x", "initial-bh-chi1y">>],
      [z |-> "initial-bh-chi2z",
       xy |-> <<"initial-bh-chi2x", "initial-bh-chi2y">>]>>

Num(v) == [t |-> "num", h |-> 2 * v]

StrVal(text) == [t |-> "str", s |-> text]

\* float(text): the texts of the model hold no sign, point, exponent or
\* blank, so float() succeeds on the runs of digits only
IsFloat(text) == IsInt(text)

FloatOf(text) == Num(IntOf(text))

\* str.lower()
UpperCase == <<"A", "B", "C", "D", "E", "F", "G", "H", "I", "J", "K", "L", "M",
               "N", "O", "P", "Q", "R", "S", "T", "U", "V", "W", "X", "Y", "Z">>

LowerCase == <<"a", "b", "c", "d", "e", "f", "g", "h", "i", "j", "k", "l", "m",
               "n", "o", "p", "q", "r", "s", "t", "u", "v", "w", "x", "y", "z">>

Lower(text) ==
    [k \in 1..Len(text) |->
        IF \E u \in 1..Len(UpperCase) : UpperCase[u] = text[k]
        THEN LowerCase[CHOOSE u \in 1..Len(UpperCase) : UpperCase[u] = text[k]]
        ELSE text[k]]

Aligned == <<"a", "l", "i", "g", "n", "e", "d">>

Nonspinning == <<"n", "o", "n", "s", "p", "i", "n", "n", "i", "n", "g">>

\* opts[k] = v
Put(opts, k, v) ==
    [x \in (DOMAIN opts) \cup {k} |-> IF x = k THEN v ELSE opts[x]]

\* The state of a run of the parser: opts so far and the exception raised
Running(opts) == [exc |-> "none", opts |-> opts]

Raised(e, opts) == [exc |-> e, opts |-> opts]

\* Lines 444-458 for the lines k.. of nxt
RECURSIVE ParseLines(_, _, _)
ParseLines(nxt, k, opts) ==
    IF k > Len(nxt) THEN opts
    ELSE LET key == nxt[k].key
             text == nxt[k].text
             isDerived == \E d \in 1..Len(derived_fields) : derived_fields[d] = key
         IN  ParseLines(nxt, k + 1,
                 IF IsFloat(text) THEN Put(opts, key, FloatOf(text))
                 ELSE IF isDerived /\ key \notin DOMAIN opts
                 THEN Put(opts, key, Num(0))
                 ELSE Put(opts, key, StrVal(text)))

\* Mutant of SpinDefault: the system type is compared as written
SpinDefault_CaseSensitive(st, z, xy) ==
    IF st.exc # "none" \/ z \notin DOMAIN st.opts \/ xy \in DOMAIN st.opts
    THEN st
    ELSE IF "system-type" \notin DOMAIN st.opts
    THEN Raised("KeyError", st.opts)
    ELSE IF st.opts["system-type"].t # "str"
    THEN Raised("AttributeError", st.opts)
    ELSE IF st.opts["system-type"].s \in {Aligned, Nonspinning}
    THEN Running(Put(st.opts, xy, Num(0)))
    ELSE st

\* One pass of the inner loop of a spin block (lines 463-468) for the key xy:
\* opts["system-type"] is read only when z is in opts and xy is not, and
\* .lower() exists on a str only
SpinDefault(st, z, xy) ==
    IF st.exc # "none" \/ z \notin DOMAIN st.opts \/ xy \in DOMAIN st.opts
    THEN st
    ELSE IF "system-type" \notin DOMAIN st.opts
    THEN Raised("KeyError", st.opts)
    ELSE IF st.opts["system-type"].t # "str"
    THEN Raised("AttributeError", st.opts)
    ELSE IF Lower(st.opts["system-type"].s) \in {Aligned, Nonspinning}
    THEN Running(Put(st.opts, xy, Num(0)))
    ELSE st

\* Lines 462-490: the blocks from b on, in block b the keys from c on
RECURSIVE SpinDefaults(_, _, _)
SpinDefaults(st, b, c) ==
    IF b > Len(SpinBlocks) THEN st
    ELSE IF c > Len(SpinBlocks[b].xy) THEN SpinDefaults(st, b + 1, 1)
    ELSE SpinDefaults(SpinDefault(st, SpinBlocks[b].z, SpinBlocks[b].xy[c]),
                      b, c + 1)

\* v / 2.0 and v * 2.0 on a float; v == 0.0
Half(v) == [t |-> "num", h |-> v.h \div 2]

Twice(v) == [t |-> "num", h |-> v.h * 2]

IsZero(v) == v.t = "num" /\ v.h = 0

\* opts[k] = f(opts[from]); arithmetic on a str raises TypeError
Derive(st, k, from, half) ==
    IF st.opts[from].t # "num" THEN Raised("TypeError", st.opts)
    ELSE Running(Put(st.opts, k, IF half THEN Half(st.opts[from])
                                         ELSE Twice(st.opts[from])))

\* Mutant of CrossDerive: a number of orbits or cycles given as zero is kept
CrossDerive_KeepZero(st) ==
    LET cyc == "number-of-cycles-22"
        orb == "number-of-orbits"
        s1 == IF st.exc = "none" /\ cyc \in DOMAIN st.opts
                   /\ orb \notin DOMAIN st.opts
              THEN Derive(st, orb, cyc, TRUE) ELSE st
        s3 == IF s1.exc = "none" /\ orb \in DOMAIN s1.opts
                   /\ cyc \notin DOMAIN s1.opts
              THEN Derive(s1, cyc, orb, FALSE) ELSE s1
    IN  s3

\* Lines 494-504
CrossDerive(st) ==
    LET cyc == "number-of-cycles-22"
        orb == "number-of-orbits"
        s1 == IF st.exc = "none" /\ cyc \in DOMAIN st.opts
                   /\ orb \notin DOMAIN st.opts
              THEN Derive(st, orb, cyc, TRUE) ELSE st
        s2 == IF s1.exc = "none" /\ cyc \in DOMAIN s1.opts
                   /\ IsZero(s1.opts[orb])
              THEN Derive(s1, orb, cyc, TRUE) ELSE s1
        s3 == IF s2.exc = "none" /\ orb \in DOMAIN s2.opts
                   /\ cyc \notin DOMAIN s2.opts
              THEN Derive(s2, cyc, orb, FALSE) ELSE s2
        s4 == IF s3.exc = "none" /\ orb \in DOMAIN s3.opts
                   /\ IsZero(s3.opts[cyc])
              THEN Derive(s3, cyc, orb, FALSE) ELSE s3
    IN  s4

\* Lines 506-508
DefaultDerived(opts) ==
    [x \in (DOMAIN opts) \cup Range(derived_fields) |->
        IF x \in DOMAIN opts THEN opts[x] ELSE Num(0)]

EmptyOpts == [x \in {} |-> Num(0)]

IsAlphaLine(s) == s.alpha

\* parse_metadata_txt(raw): (nxt, opts), or the exception that leaves it
parse_metadata_txt(raw) ==
    LET nxt == SelectSeq(raw, IsAlphaLine)
        st == CrossDerive(SpinDefaults(Running(ParseLines(nxt, 1, EmptyOpts)),
                                       1, 1))
    IN  IF st.exc = "none"
        THEN Ret([nxt |-> nxt, opts |-> DefaultDerived(st.opts)])
        ELSE Exc(st.exc)

\* len(metadata_dict) > 0 of lines 549 and 622, metadata_dict being the opts
\* that metadata_from_file or metadata_from_link returned: the candidate is
\* made a record
RecordAccepted(out) == out.ok /\ Cardinality(DOMAIN out.val.opts) > 0

\* ------------------------------------------- parse_metadata_txt, called
\* The keys and texts the lines of the model are made of: system-type, the z
\* and x keys of one spin block and the z key of another, the orbit and cycle
\* counts and one more derived field; texts that float() takes (0, 10), the
\* system types, and the empty text of "key =" and of a line without "="
ParseKeys ==
    {"system-type", "relaxed-chi1z", "relaxed-chi1x", "initial-bh-chi2z",
     "number-of-cycles-22", "number-of-orbits", "eccentricity"}

ParseTexts ==
    {<<>>, <<"0">>, <<"1", "0">>, <<"A", "l", "i", "g", "n", "e", "d">>,
     Nonspinning, <<"p", "r", "e", "c", "e", "s", "s", "i", "n", "g">>}

\* The lines: every key with every text, and a line that does not start
\* with a letter ("# system-type = aligned")
ParseLinesOf ==
    {[alpha |-> TRUE, key |-> k, text |-> t] : k \in ParseKeys, t \in ParseTexts}
        \cup {[alpha |-> FALSE, key |-> "system-type", text |-> Aligned]}

\* The raw texts of n lines
RawInputs(n) == [1..n -> ParseLinesOf]

InitParse ==
    /\ NoCrawl
    /\ pc = "idle"
    /\ \E n \in 0..MaxLines : \E raw \in RawInputs(n) :
          call = [entry |-> "parse_metadata_txt", raw |-> raw]
    /\ result = [kind |-> "none", table |-> <<>>]

\* parse_metadata_txt(call.raw) returns or raises
ParseCall ==
    /\ pc = "idle"
    /\ call.entry = "parse_metadata_txt"
    /\ LET out == parse_metadata_txt(call.raw)
       IN  /\ pc' = IF out.ok THEN "returned" ELSE "raised"
           /\ result' = [kind |-> "parse_metadata_txt", out |-> out]
    /\ UNCHANGED <<remote, disk, csvFile, csvRows, metadata, sims, idx, call,
                   netcalls, tier, runs, prev>>

NextParse == ParseCall

SpecParse == InitParse /\ [][NextParse]_vars

\* ------------------------------------------------- the columns of a record
\* utils.rit_catalog_info["metadata_dir"] as a str with its separator; what
\* the codec needs of it is that it holds no ":" and no "_Meta"
MetadataDir == <<"m", "e", "t", "a", "d", "a", "t", "a", "/">>

\* url + "/" + name, and str(dir / name): the url or directory by its name in
\* rit_catalog_info, the file name as formed
Link(url, name) == [url |-> url, name |-> name]

Loc(dir, name) == [dir |-> dir, name |-> name]

\* psi4_file_fmts[k].format(...): the template chosen and its arguments
Psi4File(k, args) == [fmt |-> "psi4_file_fmts", k |-> k, args |-> args]

\* psi4_filename_from_simname(sim_name), lines 348-356
psi4_filename_from_simname(sim_name) ==
    LET parts == Split(sim_name, <<":">>)
        txt == parts[Len(parts)]
        idx_s == SliceTo(txt, 4)
        dash == Split(txt, <<"-">>)
        res_s == SliceFrom(dash[2], 1)
        id_s == SliceLast(txt, 1)
    IN  IF ~IsInt(idx_s) THEN Exc("ValueError")
        ELSE IF Len(dash) < 2 THEN Exc("IndexError")
        ELSE IF ~IsInt(res_s) THEN Exc("ValueError")
        ELSE IF ~Contains(sim_name, EccMark)
        THEN IF txt = <<>> THEN Exc("IndexError")
             ELSE IF ~IsInt(id_s) THEN Exc("ValueError")
             ELSE Ret(Psi4File(0, <<IntOf(idx_s), IntOf(res_s), IntOf(id_s)>>))
        ELSE Ret(Psi4File(1, <<IntOf(idx_s), IntOf(res_s)>>))

\* The columns set at lines 623-645 of download_metadata for file f;
\* metadata_location is mf = metadata_dir / file_name
DownloadRecord(f) ==
    LET file_name == FileName(f)
        sim_name == simname_from_metadata_filename_str(file_name)
    IN  [simulation_name |-> simname_from_metadata_filename(f),
         metadata_link |-> Link("metadata_url", file_name),
         metadata_location |-> MetadataDir \o file_name,
         psi4_data_link |-> Link("data_url", psi4_filename_from_simname(sim_name)),
         psi4_data_location |->
             Loc("data_dir", psi4_filename_from_simname(sim_name)),
         waveform_data_link |->
             Link("data_url", waveform_filename_from_simname(sim_name)),
         waveform_data_location |->
             Loc("data_dir", waveform_filename_from_simname(sim_name))]

\* metadata_filename_from_cache(idx): the loop has no break, so the path
\* returned is poss_files[0] of the last tag that has files
metadata_filename_from_cache(i, dsk) ==
    LET first == Glob(simtags(i)[1], dsk)
        second == Glob(simtags(i)[2], dsk)
    IN  IF second # {} THEN {MetadataDir \o FileName(f) : f \in second}
        ELSE IF first # {} THEN {MetadataDir \o FileName(f) : f \in first}
        ELSE {<<>>}

\* Mutant of CacheRecord: the link is formed from the path glob returns
CacheRecord_PathLink(f, cache_name) ==
    LET file_path == MetadataDir \o FileName(f)
        file_name == FileName(f)
        cache_sim == simname_from_metadata_filename_str(cache_name)
        sim_name == simname_from_metadata_filename_str(file_name)
    IN  [simulation_name |-> simname_from_metadata_filename(f),
         metadata_link |-> Link("metadata_url", file_path),
         metadata_location |-> file_path,
         psi4_data_link |-> Link("data_url", psi4_filename_from_simname(cache_sim)),
         psi4_data_location |->
             Loc("data_dir", psi4_filename_from_simname(sim_name)),
         waveform_data_link |->
             Link("data_url", waveform_filename_from_simname(cache_sim)),
         waveform_data_location |->
             Loc("data_dir", waveform_filename_from_simname(sim_name))]

\* The columns set at lines 540-571 of metadata_from_cache for the file f that
\* glob gave, cache_name being what metadata_filename_from_cache(idx) returns
\* inside psi4_filename_from_cache and waveform_filename_from_cache
CacheRecord(f, cache_name) ==
    LET file_path == MetadataDir \o FileName(f)
        file_name == FileName(f)
        cache_sim == simname_from_metadata_filename_str(cache_name)
        sim_name == simname_from_metadata_filename_str(file_name)
    IN  [simulation_name |-> simname_from_metadata_filename(f),
         metadata_link |-> Link("metadata_url", file_name),
         metadata_location |-> file_path,
         psi4_data_link |-> Link("data_url", psi4_filename_from_simname(cache_sim)),
         psi4_data_location |->
             Loc("data_dir", psi4_filename_from_simname(sim_name)),
         waveform_data_link |->
             Link("data_url", waveform_filename_from_simname(cache_sim)),
         waveform_data_location |->
             Loc("data_dir", waveform_filename_from_simname(sim_name))]

\* What metadata_filename_from_cache(idx) returns inside metadata_from_cache
\* when poss_files[0] of line 540 is f: glob lists an unchanged directory in
\* one order, so for the tag of f it gives the path of f again
SameGlob(f, i, dsk) ==
    {c \in metadata_filename_from_cache(i, dsk) :
        (\E g \in dsk : g.fam = f.fam /\ g.idx = f.idx
                            /\ c = MetadataDir \o FileName(g))
            => c = MetadataDir \o FileName(f)}

\* Mutant of CacheRecords: the eccentric tag is scanned first
CacheRecords_EccFirst(i, dsk) ==
    LET first == Glob(simtags(i)[2], dsk)
        second == Glob(simtags(i)[1], dsk)
        hit == IF first # {} THEN first ELSE second
    IN  IF hit = {} THEN {<<>>}
        ELSE UNION {{<<CacheRecord(f, c)>> : c \in SameGlob(f, i, dsk)} :
                        f \in hit}

\* metadata_from_cache(idx) with every column: the tables it can return
CacheRecords(i, dsk) ==
    LET first == Glob(simtags(i)[1], dsk)
        second == Glob(simtags(i)[2], dsk)
        hit == IF first # {} THEN first ELSE second
    IN  IF hit = {} THEN {<<>>}
        ELSE UNION {{<<CacheRecord(f, c)>> : c \in SameGlob(f, i, dsk)} :
                        f \in hit}

\* refresh_metadata_df_on_disk with every column, for idx = i..n
RECURSIVE RefreshRecords(_, _, _)
RefreshRecords(i, n, dsk) ==
    IF i > n THEN {<<>>}
    ELSE {a \o b : a \in CacheRecords(i, dsk), b \in RefreshRecords(i + 1, n, dsk)}

\* ----------------------------------------------- metadata_from_cache, called
\* A cache directory holding any MaxDisk metadata files at most, as earlier
\* crawls of any archive may have left it
InitCache ==
    /\ disk \in SubsetsUpTo(Files, MaxDisk)
    /\ remote = {}
    /\ csvFile = FALSE
    /\ csvRows = <<>>
    /\ metadata = <<>>
    /\ sims = <<>>
    /\ idx = 0
    /\ pc = "idle"
    /\ call = [entry |-> "none"]
    /\ result = [kind |-> "none", table |-> <<>>]
    /\ netcalls = {}
    /\ tier = NoTier
    /\ runs = 0
    /\ prev = NoPrev

\* A name of a link column could not be formed: the exception of the codec
\* leaves metadata_from_cache
LinkRaises(tbl) ==
    \E k \in 1..Len(tbl) :
        ~tbl[k].psi4_data_link.name.ok \/ ~tbl[k].waveform_data_link.name.ok

\* helper.metadata_from_cache(i)
CacheLookup(i) ==
    /\ pc = "idle"
    /\ call' = [entry |-> "metadata_from_cache", idx |-> i]
    /\ \E tbl \in CacheRecords(i, disk) :
          IF LinkRaises(tbl)
          THEN /\ pc' = "raised"
               /\ result' = [kind |-> "ValueError", table |-> <<>>]
          ELSE /\ pc' = "returned"
               /\ result' = [kind |-> "table", table |-> tbl]
    /\ UNCHANGED <<remote, disk, csvFile, csvRows, metadata, sims, idx,
                   netcalls, tier, runs, prev>>

NextCache == \E i \in 1..MaxSims : CacheLookup(i)

SpecCache == InitCache /\ [][NextCache]_vars

\* ------------------------------------------ the payload downloaders, called
\* In SpecData disk is data_dir and remote the payload files behind data_url,
\* each split by the template that names the file: disk[which][name] is what
\* the local file holds ("absent" when it does not exist, "empty" for size 0),
\* remote[which] the names for which utils.url_exists is true.
PayloadKinds == {"psi4", "waveform"}

\* The simulations the downloaders are called for: every name of the first
\* index at the first resolution
DataSims == {f \in Files : f.idx = 1 /\ f.res = possible_res[1]}

SimName(f) == simname_from_metadata_filename_str(FileName(f))

\* file_name of line 800 and of line 842
PayloadName(which, sim_name) ==
    IF which = "psi4" THEN psi4_filename_from_simname(sim_name)
    ELSE waveform_filename_from_simname(sim_name)

\* The file names of the simulations of DataSims, by template
PayloadTable ==
    [psi4 |-> [f \in DataSims |-> PayloadName("psi4", SimName(f))],
     waveform |-> [f \in DataSims |-> PayloadName("waveform", SimName(f))]]

\* The table is formed once, in the initial state, and read from call
PayloadNameOf(which, f) == call.file_names[which][f]

PayloadNames(names, which) == {names[which][f].val : f \in DataSims}

\* os.path.exists(local_file_path) and os.path.getsize(local_file_path) > 0
HasBytes(bytes) == bytes \notin {"absent", "empty"}

\* Mutant of FetchPayload: the local file is not looked at
FetchPayload_NoSkip(which, name, use_cache, local, rem) ==
    IF name \in rem[which]
    THEN {[ret |-> "True",
           calls |-> <<[op |-> "url_exists", name |-> name],
                       [op |-> "wget", name |-> name]>>,
           local |-> [local EXCEPT ![which][name] = b]] : b \in {"web", "empty"}}
    ELSE {[ret |-> "False", calls |-> <<[op |-> "url_exists", name |-> name]>>,
           local |-> local]}

\* Lines 803-832 and, word for word, 845-874: what the call returns, the
\* remote calls it makes in their order, and data_dir after it.  wget -O
\* truncates the local file and then writes what it receives ("web"), or
\* nothing when the transfer fails ("empty"); its exit status is not read.
FetchPayload(which, name, use_cache, local, rem) ==
    IF use_cache /\ HasBytes(local[which][name])
    THEN {[ret |-> "True", calls |-> <<>>, local |-> local]}
    ELSE IF name \in rem[which]
    THEN {[ret |-> "True",
           calls |-> <<[op |-> "url_exists", name |-> name],
                       [op |-> "wget", name |-> name]>>,
           local |-> [local EXCEPT ![which][name] = b]] : b \in {"web", "empty"}}
    ELSE {[ret |-> "False", calls |-> <<[op |-> "url_exists", name |-> name]>>,
           local |-> local]}

\* use_cache of lines 798-799 and 840-841: None stands for the helper's own
EffectiveUseCache(use_cache, helper_use_cache) ==
    IF use_cache = "None" THEN helper_use_cache ELSE use_cache = "True"

\* download_psi4_data(sim_name, use_cache) for the simulation name of f, on a
\* helper built with use_cache = helper_use_cache
download_psi4_data(f, use_cache, helper_use_cache, local, rem) ==
    FetchPayload("psi4", PayloadNameOf("psi4", f).val,
                 EffectiveUseCache(use_cache, helper_use_cache), local, rem)

\* download_waveform_data(sim_name, use_cache) for the simulation name of f
download_waveform_data(f, use_cache, helper_use_cache, local, rem) ==
    FetchPayload("waveform", PayloadNameOf("waveform", f).val,
                 EffectiveUseCache(use_cache, helper_use_cache), local, rem)

\* The directories data_dir can be: at most MaxLocal files, each empty or
\* holding bytes of an earlier download ("old")
Present(local) ==
    Cardinality({n \in DOMAIN local["psi4"] : local["psi4"][n] # "absent"})
        + Cardinality({n \in DOMAIN local["waveform"] :
                           local["waveform"][n] # "absent"})

DataDirs(names) ==
    {d \in {[psi4 |-> a, waveform |-> b] :
               a \in [PayloadNames(names, "psi4") -> {"absent", "empty", "old"}],
               b \in [PayloadNames(names, "waveform")
                         -> {"absent", "empty", "old"}]} :
        Present(d) <= MaxLocal}

\* The archives behind data_url: at most MaxRemote payload files
DataArchives(names) ==
    {r \in {[psi4 |-> a, waveform |-> b] :
               a \in SUBSET PayloadNames(names, "psi4"),
               b \in SUBSET PayloadNames(names, "waveform")} :
        Cardinality(r["psi4"]) + Cardinality(r["waveform"]) <= MaxRemote}

InitData ==
    /\ call = [entry |-> "none", file_names |-> PayloadTable]
    /\ disk \in DataDirs(call.file_names)
    /\ remote \in DataArchives(call.file_names)
    /\ csvFile = FALSE
    /\ csvRows = <<>>
    /\ metadata = <<>>
    /\ sims = <<>>
    /\ idx = 0
    /\ pc = "idle"
    /\ result = [kind |-> "none", table |-> <<>>]
    /\ netcalls = {}
    /\ tier = NoTier
    /\ runs = 0
    /\ prev = NoPrev

\* One call of a downloader: out is one of the outcomes it can have
DataCall(entry, which, f, use_cache, helper_use_cache, outs) ==
    /\ pc = "idle"
    /\ call' = [entry |-> entry, which |-> which, sim |-> f,
                name |-> PayloadNameOf(which, f).val,
                file_names |-> call.file_names,
                use_cache |-> EffectiveUseCache(use_cache, helper_use_cache),
                before |-> disk]
    /\ \E out \in outs :
          /\ pc' = "returned"
          /\ result' = [kind |-> "bool", ret |-> out.ret, calls |-> out.calls]
          /\ disk' = out.local
    /\ UNCHANGED <<remote, csvFile, csvRows, metadata, sims, idx, netcalls,
                   tier, runs, prev>>

DownloadPsi4Data(f, use_cache, helper_use_cache) ==
    DataCall("download_psi4_data", "psi4", f, use_cache, helper_use_cache,
             download_psi4_data(f, use_cache, helper_use_cache, disk, remote))

DownloadWaveformData(f, use_cache, helper_use_cache) ==
    DataCall("download_waveform_data", "waveform", f, use_cache,
             helper_use_cache,
             download_waveform_data(f, use_cache, helper_use_cache, disk,
                                    remote))

NextData ==
    \/ \E f \in DataSims, uc \in {"True", "False", "None"}, huc \in BOOLEAN :
          DownloadPsi4Data(f, uc, huc)
    \/ \E f \in DataSims, uc \in {"True", "False", "None"}, huc \in BOOLEAN :
          DownloadWaveformData(f, uc, huc)

SpecData == InitData /\ [][NextData]_vars

\* ------------------------------------- the tags of an index, on characters
\* Mutant of simtags_str: the index is formatted without zero padding
simtags_str_NoPad(i) ==
    <<TagStr \o <<":">> \o FamStr(Families[1]) \o <<":">> \o FmtD(i),
      TagStr \o <<":">> \o FamStr(Families[2]) \o <<":">> \o FmtD(i)>>

\* simtags(idx) on the characters: each template up to its first "-",
\* formatted with idx
simtags_str(i) ==
    <<TagStr \o <<":">> \o FamStr(Families[1]) \o <<":">> \o Fmt04D(i),
      TagStr \o <<":">> \o FamStr(Families[2]) \o <<":">> \o Fmt04D(i)>>

\* Lines 704-725 for one row of sims, name being its simulation_name: found,
\* and whether the assertion of line 712 holds where it is evaluated
Tier2Row(i, name) ==
    LET hit == \E t \in 1..2 : Contains(name, simtags_str(i)[t])
        info == sim_info_from_metadata_filename(name)
    IN  [found |-> hit,
         f_idx |-> IF hit THEN info ELSE Ret(<<>>),
         assert_ok |-> hit => (info.ok /\ info.val[1] = i)]

\* Lines 533-536 for one file of metadata_dir: glob.glob(str(mf) + "*") gives
\* the file for some tag of idx
GlobMatches(i, file_name) ==
    \E t \in 1..2 :
        OccursAt(MetadataDir \o file_name, MetadataDir \o simtags_str(i)[t], 1)

\* The indices crawled and the files earlier crawls left: every index of
\* CodecIdx, at the configured resolutions and id values
TagFiles ==
    {f \in CodecArgs : f.res \in ResValues /\ f.id < max_id_val}

InitTags ==
    /\ NoCrawl
    /\ pc = "idle"
    /\ \E i \in CodecIdx, a \in TagFiles :
         call = [entry |-> "tags", idx |-> i, args |-> a,
                 file_name |-> FileName(a)]
    /\ result = [kind |-> "none", table |-> <<>>]

\* The pass for call.idx scans a table that holds the row of call.args
Tier2Scan ==
    /\ pc = "idle"
    /\ call.entry = "tags"
    /\ LET row == Tier2Row(call.idx,
                           simname_from_metadata_filename_str(call.file_name))
       IN  /\ pc' = IF row.assert_ok THEN "returned" ELSE "raised"
           /\ result' = [kind |-> "tier2", out |-> row]
    /\ UNCHANGED <<remote, disk, csvFile, csvRows, metadata, sims, idx, call,
                   netcalls, tier, runs, prev>>

\* metadata_from_cache(call.idx) globs a directory that holds the file of
\* call.args
Tier1Glob ==
    /\ pc = "idle"
    /\ call.entry = "tags"
    /\ pc' = "returned"
    /\ result' = [kind |-> "tier1",
                  out |-> GlobMatches(call.idx, call.file_name)]
    /\ UNCHANGED <<remote, disk, csvFile, csvRows, metadata, sims, idx, call,
                   netcalls, tier, runs, prev>>

NextTags ==
    \/ Tier2Scan
    \/ Tier1Glob

SpecTags == InitTags /\ [][NextTags]_vars

\* ------------------------------------------------------- match_combine.py
\* The script's directory: matches[p] is what loadtxt gives for
\* match<inj>part<p>.dat, one value per trial, found[p] the lines of
\* match<inj>part<p>.dat.found; partitions are numbered from 0, trials and
\* lines are counted from 1 here (the script's index + 1).  A match value is
\* an integer number of millionths.
MatchValues == {0, 123454, 123456}

\* The partitions the while loop of lines 23-26 loads: part0, part1, ... up
\* to the first number that has no file
LoadedParts(files) == {p \in files : \A q \in 0..p : q \in files}

\* array(matches).max(0), made one-dimensional by atleast_1d
maxmatch(matches, T) ==
    [i \in 1..T |->
        CHOOSE m \in {matches[p][i] : p \in DOMAIN matches} :
            \A p \in DOMAIN matches : matches[p][i] <= m]

\* Mutant of found_index: of equal maxima the last partition is taken
found_index_Last(matches, T) ==
    [i \in 1..T |->
        CHOOSE p \in DOMAIN matches :
            /\ matches[p][i] = maxmatch(matches, T)[i]
            /\ \A q \in DOMAIN matches :
                  matches[q][i] = maxmatch(matches, T)[i] => q <= p]

\* array(matches).argmax(axis=0), made one-dimensional: the first partition
\* that holds the maximum
found_index(matches, T) ==
    [i \in 1..T |->
        CHOOSE p \in DOMAIN matches :
            /\ matches[p][i] = maxmatch(matches, T)[i]
            /\ \A q \in DOMAIN matches :
                  matches[q][i] = maxmatch(matches, T)[i] => p <= q]

\* Lines 34-42: for each trial the lines of the chosen partition's .found
\* file whose number is the trial's are written; a file with fewer lines
\* gives none
RECURSIVE FoundLines(_, _, _, _)
FoundLines(fi, found, i, T) ==
    IF i > T THEN <<>>
    ELSE (IF i <= Len(found[fi[i]]) THEN <<found[fi[i]][i]>> ELSE <<>>)
             \o FoundLines(fi, found, i + 1, T)

\* savetxt's fmt = "%5.5f": the value with five decimals, in hundred-
\* thousandths (no value of the model lies halfway between two of them)
Fmt55f(v) == (v + 5) \div 10

\* Lines 21-46: what is written to out_file and to out_file + ".found"
match_combine(files, matches, found, T) ==
    LET loaded == [p \in LoadedParts(files) |-> matches[p]]
    IN  [out |-> [i \in 1..T |-> Fmt55f(maxmatch(loaded, T)[i])],
         found |-> FoundLines(found_index(loaded, T), found, 1, T)]

\* The directories the script is run in: k partitions of T trials each, the
\* line i of part p's .found file being <<p, i>>
InitMatch ==
    /\ NoCrawl
    /\ pc = "idle"
    /\ \E k \in 1..MaxParts, T \in 1..MaxTrials :
         \E m \in [0..(k - 1) -> [1..T -> MatchValues]] :
            call = [entry |-> "match_combine", files |-> 0..(k - 1),
                    trials |-> T, matches |-> m,
                    found |-> [p \in 0..(k - 1) |-> [i \in 1..T |-> <<p, i>>]]]
    /\ result = [kind |-> "none", table |-> <<>>]

\* The script runs
MatchCombine ==
    /\ pc = "idle"
    /\ call.entry = "match_combine"
    /\ pc' = "returned"
    /\ result' = [kind |-> "match_combine",
                  written |-> match_combine(call.files, call.matches,
                                            call.found, call.trials)]
    /\ UNCHANGED <<remote, disk, csvFile, csvRows, metadata, sims, idx, call,
                   netcalls, tier, runs, prev>>

NextMatch == MatchCombine

SpecMatch == InitMatch /\ [][NextMatch]_vars

\* ------------------------------------------------------------------ claims
Names(tbl) == [k \in 1..Len(tbl) |-> tbl[k].simulation_name]

NoRepeat(s) == \A a, b \in 1..Len(s) : a # b => s[a] # s[b]

\* The identifiers before idx that the running (or terminated) crawl resolved
ResolvedBefore(i) == {j \in 1..(i - 1) : tier[j].how \in {"disk", "table", "remote"}}

\* download_metadata_for_catalog returned the snapshot without entering its loop
ReturnedSnapshot ==
    /\ call.crawl
    /\ call.use_cache
    /\ call.startFile
    /\ pc = "returned"
    /\ idx = 0

\* download_metadata_for_catalog ran its loop to the end
FinishedLoop == call.crawl /\ pc = "returned" /\ idx = call.n /\ call.n > 0

\* C1: a second complete run of download_metadata_for_catalog, right after a
\* first one with the same num_sims_to_crawl and use_cache set, ends with the
\* snapshot the first run left and has made no remote call.
C1_IdempotentResume ==
    (pc = "returned" /\ call.entry = "crawl" /\ call.repeat)
        => (csvRows = call.prevSnap /\ netcalls = {})

\* C2: the in-memory table and the persisted snapshot hold at most one row per
\* simulation_name in every reachable state.
C2_OneRowPerSimulation ==
    /\ NoRepeat(Names(metadata))
    /\ NoRepeat(Names(sims))
    /\ NoRepeat(Names(csvRows))

\* C3: when a crawl with use_cache set is terminated, the snapshot the next
\* invocation reads holds the record of every identifier resolved before the
\* one in flight.
C3_CrashSafety ==
    (pc = "crashed" /\ call.use_cache)
        => \A j \in ResolvedBefore(idx) :
              tier[j].rows[1] \in Range(read_metadata_df_from_disk)

\* Some raw metadata file of identifier i is in metadata_dir
OnDisk(i) == \E f \in disk : f.idx = i

\* Some row of the crawl's table is a simulation of identifier i
InTable(i) == \E k \in 1..Len(sims) : sims[k].simulation_name.idx = i

\* C4: with use_cache set, a pass of the loop consults disk, then the table,
\* then the web: it makes remote calls only for its own identifier and only
\* when that identifier has no raw file on disk and no row in the table; an
\* identifier with a raw file on disk is resolved from disk.
C4_TierOrdering ==
    [][(pc = "resolve" /\ call.use_cache /\ pc' # "crashed") =>
          LET mine == {c \in netcalls' : c.file.idx = idx}
          IN  /\ (netcalls' \ netcalls) \subseteq mine
              /\ (OnDisk(idx) \/ InTable(idx)) => mine = {}
              /\ OnDisk(idx) => tier'[idx].how = "disk"
              /\ (~OnDisk(idx) /\ InTable(idx)) => tier'[idx].how = "table"
              /\ (~OnDisk(idx) /\ ~InTable(idx))
                    => (tier'[idx].how \in {"remote", "gap"} /\ mine # {})]_vars

\* In one crawl with use_cache set, an identifier came from the table and
\* another from the web
C4_Witness ==
    /\ call.use_cache
    /\ \E i, j \in 1..MaxSims :
          /\ tier[i].how = "table"
          /\ tier[j].how = "remote"
          /\ \A c \in netcalls : c.file.idx # i

\* Position of a resolution in possible_res
Pos(r) == CHOOSE k \in 1..Len(possible_res) : possible_res[k] = r

\* The file names tier 3 forms for identifier i
Candidates(i) == {f \in Files : f.idx = i /\ f.id < max_id_val}

\* C5: the record tier 3 accepts for an identifier is a hosted candidate at
\* the last-listed resolution that hosts any candidate of it; every candidate
\* at a later-listed resolution was checked before, and no call was made for a
\* candidate at an earlier-listed resolution.
C5_ResolutionPreference ==
    \A i \in 1..MaxSims :
        tier[i].how = "remote" =>
            LET a == tier[i].rows[1].simulation_name
            IN  /\ a \in remote \cap Candidates(i)
                /\ \A f \in remote \cap Candidates(i) : Pos(f.res) <= Pos(a.res)
                /\ \A f \in Candidates(i) :
                      Pos(f.res) > Pos(a.res) => ExistsCall(f) \in netcalls
                /\ \A c \in netcalls :
                      c.file.idx = i => Pos(c.file.res) >= Pos(a.res)

\* Tier 3 resolved an identifier that has hosted candidates at two resolutions
C5_Witness ==
    \E i \in 1..MaxSims :
        /\ tier[i].how = "remote"
        /\ Cardinality({f.res : f \in remote \cap Candidates(i)}) >= 2

\* The table load holds at line 86 has fewer records than the fraction asks
LoadBelowGate ==
    Len(call.startRows) * call.frac[2] < call.frac[1] * call.n

C7_CompletenessSignalled ==
    (call.entry = "load" /\ FinishedLoop /\ result.kind = "catalog")
        => Cardinality(Range(Names(result.table))) * call.frac[2]
              >= call.frac[1] * call.n

C9_TerminalCap ==
    ReturnedSnapshot => result.table = Head_(call.startRows, call.n)

\* Identifier i has no candidate on the web, no raw file on disk and no row
GapAt(i) ==
    /\ remote \cap Candidates(i) = {}
    /\ ~OnDisk(i)
    /\ ~InTable(i)

\* C10: a pass for an identifier with no candidate on the web, no raw file and
\* no row leaves the table as it was and the crawl goes on; a crawl that ended
\* its loop went through every identifier.
C10_GapTolerance ==
    /\ [][(pc = "resolve" /\ GapAt(idx) /\ pc' # "crashed") =>
            /\ sims' = sims
            /\ metadata' = sims
            /\ tier'[idx] = [how |-> "gap", rows |-> <<>>]
            /\ result'.kind \notin {"AssertionError", "ValueError"}
            /\ IF call.use_cache THEN pc' = "write_open"
               ELSE IF idx = call.n THEN pc' = "returned"
               ELSE pc' = "resolve" /\ idx' = idx + 1]_vars
    /\ [](FinishedLoop => \A i \in 1..call.n : tier[i].how # "none")

\* A crawl ended its loop after a gap and a later identifier found on the web
C10_Witness ==
    /\ FinishedLoop
    /\ \E i, j \in 1..call.n :
          /\ i < j
          /\ tier[i].how = "gap"
          /\ tier[j].how = "remote"
          /\ Len(result.table) > 0

\* C11: a candidate whose fetch fails (the existence check succeeded, the
\* download fails or leaves nothing usable) counts as absent: the crawl ends
\* in no failure but the incompleteness ValueError and tier 2's
\* AssertionError, and no pass appends a record from an unusable download.
C11_FetchFailureAbsorbed ==
    /\ pc = "raised" => result.kind \in {"ValueError", "AssertionError"}
    /\ \A i \in 1..MaxSims : tier[i].how # "unusable"

\* The codec's function f has been applied to the file name of the state
CodecOf(f) == pc = "returned" /\ call.entry = "codec" /\ result.kind = f

SimInfoExpected ==
    Ret(<<call.args.idx, call.args.res, call.args.id>>)

\* C12 as stated: for every positive index, resolution and id_value >= 0,
\* sim_info_from_metadata_filename of the encoded quasicircular name returns
\* (index, resolution, id_value), and of the encoded eccentric name
\* (index, resolution, -1), without raising.
C12_CodecRoundTrip ==
    CodecOf("sim_info_from_metadata_filename") => result.out = SimInfoExpected

\* C12 amended: the same for every index of at most four digits; a longer
\* index comes back as its last four digits.
C12_CodecRoundTripAmended ==
    CodecOf("sim_info_from_metadata_filename") =>
        /\ result.out.ok
        /\ result.out.val[2] = call.args.res
        /\ result.out.val[3] = call.args.id
        /\ result.out.val[1] = call.args.idx % 10000
        /\ call.args.idx <= 9999 => result.out = SimInfoExpected

\* C12 witness: the quasicircular name of a four-digit index, a two-digit
\* resolution and a two-digit id has been decoded to its arguments
C12_Witness ==
    /\ CodecOf("sim_info_from_metadata_filename")
    /\ call.args.idx = 9999
    /\ call.args.res = 88
    /\ call.args.id = MaxCodecNum
    /\ result.out = Ret(<<9999, 88, MaxCodecNum>>)

WaveformExpected(fam, i, res) ==
    <<"E", "x", "t", "r", "a", "p", "S", "t", "r", "a", "i", "n", "_">>
        \o TagStr \o <<"-">> \o FamStr(fam) \o <<"-">> \o Fmt04D(i)
        \o <<"-", "n">> \o FmtD(res) \o <<".", "h", "5">>

\* C14: waveform_filename_from_simname gives one file name for all the
\* quasicircular names that differ in the id value only; the family segment
\* of that file name is the family tag of the name; and for an index of at
\* most four digits the file name is the grammar's, a function of family,
\* index and resolution.
C14_WaveformIndependence ==
    CodecOf("waveform_filename_from_simname") =>
        LET mine == result.out[call.args.id]
        IN  /\ mine.ok
            /\ \A d \in DOMAIN result.out : result.out[d] = mine
            /\ Split(mine.val, <<"-">>)[2] = FamStr(call.args.fam)
            /\ call.args.idx <= 9999 =>
                   mine.val = WaveformExpected(call.args.fam, call.args.idx,
                                               call.args.res)

\* C14 witness: the waveform file name of a quasicircular name, computed for
\* more than one id value
C14_Witness ==
    /\ CodecOf("waveform_filename_from_simname")
    /\ call.args = QuasiFile(MaxCodecNum, 88, 1)
    /\ Cardinality(DOMAIN result.out) > 1
    /\ result.out[0] = result.out[MaxCodecNum]

\* parse_metadata_txt has been applied to the lines of the state
Parsed == call.entry = "parse_metadata_txt" /\ pc \in {"returned", "raised"}

\* C15: parse_metadata_txt returns a record and never raises, whatever the
\* lines are.
C15_ParserTotality == Parsed => result.out.ok

\* C16: the output of parse_metadata_txt holds all eight derived fields, each
\* of them a number and never a string.
C16_DerivedFieldTotality ==
    (Parsed /\ result.out.ok) =>
        \A d \in 1..Len(derived_fields) :
            /\ derived_fields[d] \in DOMAIN result.out.val.opts
            /\ result.out.val.opts[derived_fields[d]].t = "num"

\* What the raw text of the state supplies for key k: the lines that start
\* with a letter and have the key, and the text of the last of them
KeyLines(k) ==
    {j \in 1..Len(call.raw) : call.raw[j].alpha /\ call.raw[j].key = k}

Supplied(k) == KeyLines(k) # {}

LastText(k) == call.raw[SetMax(KeyLines(k))].text

SuppliedNumber(k) == Supplied(k) /\ IsFloat(LastText(k))

SuppliedZero(k) == SuppliedNumber(k) /\ IntOf(LastText(k)) = 0

Out == result.out.val.opts

\* C17: when the text supplies a numeric number-of-cycles-22 and
\* number-of-orbits is absent or zero, the output's number-of-orbits is half
\* the cycles; when it supplies a numeric number-of-orbits and
\* number-of-cycles-22 is absent or zero, the output's number-of-cycles-22 is
\* twice the orbits; when both are supplied nonzero both stay as supplied.
C17_OrbitCycleDerivation ==
    (Parsed /\ result.out.ok) =>
        LET cyc == "number-of-cycles-22"
            orb == "number-of-orbits"
        IN  /\ (SuppliedNumber(cyc) /\ (~Supplied(orb) \/ SuppliedZero(orb)))
                  => /\ 2 * Out[orb].h = FloatOf(LastText(cyc)).h
                     /\ Out[orb].t = "num"
            /\ (SuppliedNumber(orb) /\ (~Supplied(cyc) \/ SuppliedZero(cyc)))
                  => /\ Out[cyc].h = 2 * FloatOf(LastText(orb)).h
                     /\ Out[cyc].t = "num"
            /\ (SuppliedNumber(cyc) /\ SuppliedNumber(orb)
                    /\ ~SuppliedZero(cyc) /\ ~SuppliedZero(orb))
                  => /\ Out[cyc] = FloatOf(LastText(cyc))
                     /\ Out[orb] = FloatOf(LastText(orb))

\* C17 witness: ten cycles and zero orbits supplied, five orbits returned
C17_Witness ==
    /\ Parsed /\ result.out.ok
    /\ SuppliedNumber("number-of-cycles-22")
    /\ IntOf(LastText("number-of-cycles-22")) = 10
    /\ SuppliedZero("number-of-orbits")
    /\ Out["number-of-orbits"] = [t |-> "num", h |-> 10]
    /\ Out["number-of-cycles-22"] = Num(10)

\* The system type of the raw text is aligned or nonspinning in any case of
\* its letters
AlignedType ==
    /\ Supplied("system-type")
    /\ ~IsFloat(LastText("system-type"))
    /\ Lower(LastText("system-type")) \in {Aligned, Nonspinning}

\* C18: for each of the four prefixes by itself, an x or y component that
\* the text supplies is returned as supplied; one that it does not supply is
\* returned as 0.0 when the z component is supplied and the system type is
\* aligned or nonspinning, and is not returned otherwise.
C18_SpinDefaulting ==
    (Parsed /\ result.out.ok) =>
        \A b \in 1..Len(SpinBlocks) : \A c \in 1..Len(SpinBlocks[b].xy) :
            LET xy == SpinBlocks[b].xy[c]
            IN  IF Supplied(xy)
                THEN /\ xy \in DOMAIN Out
                     /\ Out[xy] = IF IsFloat(LastText(xy))
                                  THEN FloatOf(LastText(xy))
                                  ELSE StrVal(LastText(xy))
                ELSE IF Supplied(SpinBlocks[b].z) /\ AlignedType
                THEN xy \in DOMAIN Out /\ Out[xy] = Num(0)
                ELSE xy \notin DOMAIN Out

\* C18 witness: a system type written "Aligned", the z and x components of
\* relaxed-chi1 supplied: x is kept, y is set to 0.0, and the prefixes without
\* a z component get nothing
C18_Witness ==
    /\ Parsed /\ result.out.ok
    /\ AlignedType
    /\ LastText("system-type") # Aligned
    /\ Supplied("relaxed-chi1z")
    /\ SuppliedNumber("relaxed-chi1x")
    /\ Out["relaxed-chi1x"] = Num(10)
    /\ Out["relaxed-chi1y"] = Num(0)
    /\ "initial-bh-chi2x" \notin DOMAIN Out

\* The first invocation, a crawl with use_cache set, ran its loop to the end
\* from the fresh cache directory, and the directory is as the crawl left it
FirstCrawlDone ==
    /\ runs = 1
    /\ call.entry = "crawl"
    /\ call.use_cache
    /\ FinishedLoop
    /\ prev.valid

\* C19: after such a crawl, refresh_metadata_df_on_disk with the same
\* num_sims_to_crawl gives the records of the table the crawl returned: the
\* same simulation names, each with the same link and location columns.
C19_SnapshotReconstruction ==
    FirstCrawlDone =>
        \A tbl \in RefreshRecords(1, call.n, disk) :
            /\ Range(tbl) = {DownloadRecord(row.simulation_name) :
                                 row \in Range(result.table)}
            /\ Len(tbl) = Len(result.table)

\* C19 witness: a crawl over three identifiers that returned a quasicircular
\* and an eccentric record
C19_Witness ==
    /\ FirstCrawlDone
    /\ call.n = MaxSims
    /\ \E a, b \in 1..Len(result.table) :
          /\ result.table[a].simulation_name.fam = Families[1]
          /\ result.table[b].simulation_name.fam = Families[2]

\* metadata_from_cache(call.idx) has been applied to the directory
LookedUp == call.entry = "metadata_from_cache" /\ pc \in {"returned", "raised"}

\* C20: metadata_from_cache(idx) returns the record of a quasicircular file
\* of idx when the directory holds one, else the record of an eccentric file
\* of idx when it holds one, else the empty table; it does not raise.
C20_DiskLookupByIndex ==
    LookedUp =>
        LET quasi == {f \in disk : f.fam = Families[1] /\ f.idx = call.idx}
            ecc == {f \in disk : f.fam = Families[2] /\ f.idx = call.idx}
            from == IF quasi # {} THEN quasi ELSE ecc
        IN  /\ pc = "returned"
            /\ result.kind = "table"
            /\ IF from = {} THEN result.table = <<>>
               ELSE /\ Len(result.table) = 1
                    /\ \E f \in from :
                          /\ result.table[1].simulation_name = f
                          /\ result.table[1].metadata_link =
                                 Link("metadata_url", FileName(f))
                          /\ result.table[1].metadata_location =
                                 MetadataDir \o FileName(f)

\* C20 witness: the directory holds a quasicircular and an eccentric file of
\* the index and the quasicircular record is returned
C20_Witness ==
    /\ LookedUp
    /\ \E f, g \in disk :
          /\ f.idx = call.idx /\ g.idx = call.idx
          /\ f.fam = Families[1] /\ g.fam = Families[2]
          /\ Len(result.table) = 1
          /\ result.table[1].simulation_name = f

\* C21: load called with download = None (the default) on a cache whose
\* catalog is insufficient tries the download (the crawl is entered), and it
\* raises only when the cache holds no catalog at all.
C21_DefaultLoadFallsBack ==
    (call.entry = "load" /\ call.download = "None" /\ LoadBelowGate) =>
        /\ call.crawl
        /\ pc = "raised" => Len(call.startRows) = 0

\* A downloader has been applied to the data directory of the state
Downloaded ==
    call.entry \in {"download_psi4_data", "download_waveform_data"}
        /\ pc = "returned"

\* The local file of the payload had bytes when the downloader was called
WasCached == HasBytes(call.before[call.which][call.name])

\* C22: download_psi4_data and download_waveform_data, called with use_cache
\* on for a payload whose local file exists with nonzero size, return True,
\* make no remote call and leave data_dir as it was; otherwise the first
\* remote call is the existence check of the payload's URL and a download
\* comes only after it, and when the remote file does not exist the call
\* returns False and data_dir is as it was.
C22_SkipIfCached ==
    Downloaded =>
        IF call.use_cache /\ WasCached
        THEN /\ result.ret = "True"
             /\ result.calls = <<>>
             /\ disk = call.before
        ELSE /\ Len(result.calls) >= 1
             /\ result.calls[1] = [op |-> "url_exists", name |-> call.name]
             /\ \A k \in 1..Len(result.calls) :
                   result.calls[k].op = "wget" =>
                       /\ k > 1
                       /\ result.calls[k].name = call.name
                       /\ call.name \in remote[call.which]
             /\ call.name \notin remote[call.which] =>
                   /\ result.ret = "False"
                   /\ disk = call.before
                   /\ Len(result.calls) = 1

\* C22 witness: download_waveform_data with use_cache left to the helper's
\* (on), the local file holding bytes and the archive hosting the payload:
\* True without a remote call
C22_Witness ==
    /\ Downloaded
    /\ call.entry = "download_waveform_data"
    /\ call.use_cache
    /\ WasCached
    /\ call.name \in remote[call.which]
    /\ result.ret = "True"
    /\ result.calls = <<>>
    /\ disk = call.before

\* C23: tier 3 probes, for each resolution, every id value from 0 up to
\* max_id_in_name, so a quasicircular simulation with a file on the web at a
\* configured resolution and an id value in 0..max_id_in_name is resolved:
\* an identifier that the crawl left as a gap has no such file.
C23_IdProbingRange ==
    \A i \in 1..MaxSims :
        (call.crawl /\ tier[i].how = "gap") =>
            \A r \in ResValues : \A d \in 0..max_id_val :
                QuasiFile(i, r, d) \notin remote

\* os.path.basename of a metadata_location
Basename(loc) == SliceFrom(loc, Len(MetadataDir))

\* The columns of record r name the files of r's own simulation_name
SelfConsistent(r) ==
    LET sim_name == SimName(r.simulation_name)
    IN  /\ Ret(r.metadata_link.name) = metadata_filename_from_simname(sim_name)
        /\ Basename(r.metadata_location) = r.metadata_link.name
        /\ r.psi4_data_link.name = psi4_filename_from_simname(sim_name)
        /\ r.psi4_data_location.name = r.psi4_data_link.name
        /\ r.waveform_data_link.name = waveform_filename_from_simname(sim_name)
        /\ r.waveform_data_location.name = r.waveform_data_link.name

\* C24: in every record metadata_from_cache returns, for any contents of the
\* cache directory, and in every record download_metadata builds for a file
\* of the directory, the link and location columns name the files the codec
\* computes from the record's own simulation_name.
C24_RecordSelfConsistency ==
    /\ \A f \in disk : SelfConsistent(DownloadRecord(f))
    /\ (LookedUp /\ pc = "returned") =>
          \A k \in 1..Len(result.table) : SelfConsistent(result.table[k])

\* The scan of tier 2 (k = "tier2") or the glob of tier 1 (k = "tier1") has
\* been applied to the index and the file of the state
TagsOf(k) ==
    call.entry = "tags" /\ pc \in {"returned", "raised"} /\ result.kind = k

NoKeyValueLine(raw) == \A j \in 1..Len(raw) : ~raw[j].alpha

\* C26: a candidate whose raw metadata text holds no key = value line is not
\* accepted: the test on the size of the parsed record fails for it, so it
\* adds no row.
C26_NoRecordFromEmpty ==
    (Parsed /\ NoKeyValueLine(call.raw)) => ~RecordAccepted(result.out)

\* A crawl made with use_cache off
UncachedCrawl == call.crawl /\ ~call.use_cache

\* C27: a crawl with use_cache off resolves no identifier from the snapshot
\* or from a raw file of the cache directory (each pass is the pass of a
\* crawl with an empty table behind it and an empty directory: tier 3 alone
\* gives the record, fetched from the web), and metadata.csv is at every
\* step what it was when the crawl started.
C27_UseCacheDisabled ==
    /\ [][(pc = "resolve" /\ UncachedCrawl /\ pc' # "crashed") =>
            LET r == ResolveIdx(idx, <<>>, sims, {}, FALSE)
            IN  /\ sims' = sims \o r.data
                /\ netcalls' = netcalls \cup r.calls
                /\ disk' = disk \cup r.saved
                /\ tier'[idx] = [how |-> r.how, rows |-> r.data]
                /\ csvFile' = csvFile
                /\ csvRows' = csvRows]_vars
    /\ [](UncachedCrawl =>
            /\ csvFile = call.startFile
            /\ csvRows = call.startRows
            /\ pc = "resolve" /\ idx = 1 => sims = <<>>
            /\ \A i \in 1..MaxSims :
                  /\ tier[i].how \in {"none", "remote", "gap"}
                  /\ tier[i].how = "remote" =>
                        GetCall(tier[i].rows[1].simulation_name) \in netcalls)

\* C27 witness: a crawl with use_cache off ended its loop with a snapshot on
\* disk that holds the simulation it fetched again from the web
C27_Witness ==
    /\ UncachedCrawl
    /\ FinishedLoop
    /\ csvFile
    /\ csvRows = call.startRows
    /\ \E i \in 1..call.n :
          /\ tier[i].how = "remote"
          /\ tier[i].rows[1] \in Range(csvRows)
          /\ tier[i].rows[1].simulation_name \in disk
          /\ GetCall(tier[i].rows[1].simulation_name) \in netcalls

\* match_combine.py has run on the directory of the state
Combined == call.entry = "match_combine" /\ pc = "returned"

\* The partitions that hold the largest match value of trial i
Best(i) ==
    {p \in call.files :
        \A q \in call.files : call.matches[q][i] <= call.matches[p][i]}

\* The lowest-numbered of them
FirstBest(i) == CHOOSE p \in Best(i) : \A q \in Best(i) : p <= q

\* C28 as stated: the value written for trial i is the maximum over the
\* partitions of trial i's match value, and line i of the ".found" output is
\* line i of the ".found" file of the lowest-numbered partition that holds
\* the maximum.
C28_MatchCombination ==
    Combined =>
        /\ Len(result.written.found) = call.trials
        /\ \A i \in 1..call.trials :
              /\ 10 * result.written.out[i] = call.matches[FirstBest(i)][i]
              /\ result.written.found[i] = call.found[FirstBest(i)][i]

\* C28 amended: the value written is that maximum in the five decimals of
\* the output's format, the maximum rounded to the nearest hundred-
\* thousandth; the lines are as stated.
C28_MatchCombinationAmended ==
    Combined =>
        /\ Len(result.written.found) = call.trials
        /\ DOMAIN result.written.out = 1..call.trials
        /\ \A i \in 1..call.trials :
              LET m == call.matches[FirstBest(i)][i]
                  w == 10 * result.written.out[i]
              IN  /\ w - m <= 5 /\ m - w < 5
                  /\ m % 10 = 0 => w = m
                  /\ result.written.found[i] = call.found[FirstBest(i)][i]

\* C28 witness: three partitions, the largest value of the first trial held
\* by the last two of them, and the line of the second partition written
C28_Witness ==
    /\ Combined
    /\ call.files = 0..2
    /\ call.trials = MaxTrials
    /\ Best(1) = {1, 2}
    /\ result.written.found[1] = <<1, 1>>
    /\ result.written.out[1] = 12346
    /\ result.written.found[MaxTrials][1] = 0

=============================================================================
